---------------------------- MODULE Spec2Model ----------------------------
(***************************************************************************)
(* Model of the movies API lambdas (Jserrano27/aws-moviesapi).             *)
(*                                                                         *)
(*   - the router lambda (handleRequest and its five operation handlers,   *)
(*     paginateMovies, the two envelope helpers),                          *)
(*   - the four single-purpose lambdas (insert, update, delete, findOne),  *)
(*   - the DynamoDB table they share, as the storage collaborator.         *)
(*                                                                         *)
(* Strings that the code inspects (ids, the page query parameter) are      *)
(* sequences of byte values; Go's int is the 64-bit two's complement int   *)
(* of the lambda targets (amd64/arm64), kept as four 16-bit limbs, least   *)
(* significant first, so that its wrap-around is the machine's.            *)
(***************************************************************************)
EXTENDS Integers, Sequences, FiniteSets, TLC

VARIABLES
    table,      \* the DynamoDB table: key -> item, or NoItem
    before,     \* history: the table as the last request found it
    req,        \* the request being answered; NoRequest while the lambda is idle
    resp,       \* its response, or Panic; NoResponse while the lambda is idle
    calls,      \* the storage calls it made, in order, each with its outcome
    lambda,     \* the lambda function invoked
    handler,    \* the operation handler that ran
    lastWrite   \* history: per key, the name last written with status 200

vars == <<table, before, req, resp, calls, lambda, handler, lastWrite>>

---------------------------------------------------------------------------
(* Go's int: 64-bit two's complement words.                                *)

LimbBase == 65536
NumLimbs == 4
SignLimb == LimbBase \div 2

RECURSIVE AddLimbs(_, _, _, _)
AddLimbs(a, b, i, c) ==
    IF i > NumLimbs THEN <<>>
    ELSE LET s == a[i] + b[i] + c
         IN  <<s % LimbBase>> \o AddLimbs(a, b, i + 1, s \div LimbBase)

RECURSIVE MulLimbs(_, _, _, _)
MulLimbs(a, k, i, c) ==
    IF i > NumLimbs THEN <<>>
    ELSE LET s == a[i] * k + c
         IN  <<s % LimbBase>> \o MulLimbs(a, k, i + 1, s \div LimbBase)

RECURSIVE MulCarry(_, _, _, _)
MulCarry(a, k, i, c) ==
    IF i > NumLimbs THEN c
    ELSE MulCarry(a, k, i + 1, (a[i] * k + c) \div LimbBase)

RECURSIVE AddCarry(_, _, _, _)
AddCarry(a, b, i, c) ==
    IF i > NumLimbs THEN c
    ELSE AddCarry(a, b, i + 1, (a[i] + b[i] + c) \div LimbBase)

\* the word of a small non-negative number (n < LimbBase)
W(n) == [i \in 1..NumLimbs |-> IF i = 1 THEN n ELSE 0]

AllOnes == [i \in 1..NumLimbs |-> LimbBase - 1]

AddW(a, b) == AddLimbs(a, b, 1, 0)
MulW(a, k) == MulLimbs(a, k, 1, 0)
NotW(a)    == [i \in 1..NumLimbs |-> LimbBase - 1 - a[i]]
NegW(a)    == AddW(NotW(a), W(1))
DecW(a)    == AddW(a, AllOnes)

IsNeg(a) == a[NumLimbs] >= SignLimb

\* unsigned a < b, from the most significant limb down
RECURSIVE LessU(_, _, _)
LessU(a, b, i) ==
    IF i = 0 THEN FALSE
    ELSE IF a[i] # b[i] THEN a[i] < b[i]
    ELSE LessU(a, b, i - 1)

\* signed a < b
LessW(a, b) ==
    IF IsNeg(a) # IsNeg(b) THEN IsNeg(a) ELSE LessU(a, b, NumLimbs)

GreaterW(a, b) == LessW(b, a)

\* the number a word in 0 .. LimbBase-1 stands for
Small(a) == a[1]

\* the word of a small integer of either sign
FromInt(n) == IF n >= 0 THEN W(n) ELSE NegW(W(0 - n))

MaxInt64 == [i \in 1..NumLimbs |-> IF i = NumLimbs THEN SignLimb - 1 ELSE LimbBase - 1]
MinInt64 == [i \in 1..NumLimbs |-> IF i = NumLimbs THEN SignLimb ELSE 0]

---------------------------------------------------------------------------
(* paginateMovies                                                          *)

PageSize == 3

\* int(math.Ceil(float64(sliceLength) / float64(pageSize)))
CeilDiv(n, d) == IF n % d = 0 THEN n \div d ELSE n \div d + 1

\* paginateMovies whose page starts at pageNum * pageSize (pageNum-- lost)
paginateMoviesOffByOne(movies, pageNum, pageSize) ==
    LET sliceLength == Len(movies)
        totalPages  == CeilDiv(sliceLength, pageSize)
        start0 == MulW(pageNum, pageSize)
        end0   == AddW(start0, W(pageSize))
        start  == IF GreaterW(start0, W(sliceLength)) THEN W(sliceLength) ELSE start0
        end    == IF GreaterW(end0, W(sliceLength)) THEN W(sliceLength) ELSE end0
    IN  IF IsNeg(start) \/ LessW(end, start)
        THEN [panic |-> TRUE]
        ELSE [panic |-> FALSE,
              paged |-> SubSeq(movies, Small(start) + 1, Small(end)),
              totalPages |-> totalPages]

\* movies[start:end] panics unless 0 <= start <= end <= cap(movies); after
\* the two clamps end <= len(movies) <= cap(movies) whenever end >= 0.
paginateMovies(movies, pageNum, pageSize) ==
    LET sliceLength == Len(movies)
        totalPages  == CeilDiv(sliceLength, pageSize)
        start0 == MulW(DecW(pageNum), pageSize)
        end0   == AddW(start0, W(pageSize))
        start  == IF GreaterW(start0, W(sliceLength)) THEN W(sliceLength) ELSE start0
        end    == IF GreaterW(end0, W(sliceLength)) THEN W(sliceLength) ELSE end0
    IN  IF IsNeg(start) \/ LessW(end, start)
        THEN [panic |-> TRUE]
        ELSE [panic |-> FALSE,
              paged |-> SubSeq(movies, Small(start) + 1, Small(end)),
              totalPages |-> totalPages]

---------------------------------------------------------------------------
(* Strings, strconv.Atoi, json.Unmarshal into Movie, sort.Slice            *)

\* Go's string comparison a < b: bytewise lexicographic
RECURSIVE StrLessFrom(_, _, _)
StrLessFrom(a, b, i) ==
    IF i > Len(a) THEN i <= Len(b)
    ELSE IF i > Len(b) THEN FALSE
    ELSE IF a[i] # b[i] THEN a[i] < b[i]
    ELSE StrLessFrom(a, b, i + 1)

StrLess(a, b) == StrLessFrom(a, b, 1)

IsDigit(ch) == ch \in 48..57

\* the unsigned value of a digit string, with the overflow of 64 bits noted
RECURSIVE ParseDigits(_, _, _)
ParseDigits(s, i, acc) ==
    IF i > Len(s) THEN acc
    ELSE LET m  == MulW(acc.w, 10)
             d  == W(s[i] - 48)
             c1 == MulCarry(acc.w, 10, 1, 0)
             c2 == AddCarry(m, d, 1, 0)
         IN  ParseDigits(s, i + 1,
                 [ovf |-> acc.ovf \/ c1 > 0 \/ c2 > 0, w |-> AddW(m, d)])

\* strconv.Atoi: an optional sign, then decimal digits only; a value outside
\* the int range is an error as well (ErrRange), as is an empty string.
Atoi(s) ==
    LET signed == Len(s) > 0 /\ s[1] \in {43, 45}
        neg    == Len(s) > 0 /\ s[1] = 45
        digits == IF signed THEN Tail(s) ELSE s
    IN  IF Len(digits) = 0 \/ \E i \in 1..Len(digits) : ~IsDigit(digits[i])
        THEN [err |-> TRUE]
        ELSE LET mag == ParseDigits(digits, 1, [ovf |-> FALSE, w |-> W(0)])
             IN  IF mag.ovf THEN [err |-> TRUE]
                 ELSE IF neg
                      THEN IF LessU(MinInt64, mag.w, NumLimbs) THEN [err |-> TRUE]
                           ELSE [err |-> FALSE, val |-> NegW(mag.w)]
                      ELSE IF IsNeg(mag.w) THEN [err |-> TRUE]
                           ELSE [err |-> FALSE, val |-> mag.w]

\* A request body is text that is not JSON, the JSON null, or a JSON object
\* whose "id" and "name" members, when present, are strings or numbers.
JStr(s) == [t |-> "string", s |-> s]
JNum    == [t |-> "number"]

Field(body, name) ==
    IF name \in DOMAIN body.fields /\ body.fields[name].t = "string"
    THEN body.fields[name].s
    ELSE <<>>

\* json.Unmarshal([]byte(req.Body), &movie): a syntax error or a member of
\* the wrong type is an error; an absent member leaves the zero value "".
Unmarshal(body) ==
    IF body.kind = "text" THEN [err |-> TRUE]
    ELSE IF body.kind = "null" THEN [err |-> FALSE, ID |-> <<>>, Name |-> <<>>]
    ELSE IF \E f \in DOMAIN body.fields : body.fields[f].t # "string"
         THEN [err |-> TRUE]
         ELSE [err |-> FALSE, ID |-> Field(body, "id"), Name |-> Field(body, "name")]

\* sort.Slice(movies, func(i, j) bool { return movies[i].ID < movies[j].ID })
RECURSIVE InsertSorted(_, _)
InsertSorted(sorted, m) ==
    IF sorted = <<>> THEN <<m>>
    ELSE IF StrLess(m.ID, Head(sorted).ID) THEN <<m>> \o sorted
    ELSE <<Head(sorted)>> \o InsertSorted(Tail(sorted), m)

RECURSIVE SortFrom(_, _, _)
SortFrom(movies, i, acc) ==
    IF i > Len(movies) THEN acc
    ELSE SortFrom(movies, i + 1, InsertSorted(acc, movies[i]))

SortMovies(movies) == SortFrom(movies, 1, <<>>)

---------------------------------------------------------------------------
(* The storage collaborator: one DynamoDB table keyed by the string ID.    *)

NoItem == [absent |-> TRUE]
NoErr  == "ok"

\* DynamoDB refuses an empty string as a key attribute value, whatever else
\* happens to the call; any other call fails or not as the backend decides.
CallErr(key, err) == IF key = <<>> THEN "ValidationException" ELSE err

PutItem(tbl, id, name) == [tbl EXCEPT ![id] = [ID |-> id, Name |-> name]]

\* SET #NAME = :name on an existing item only; a missing key is left missing
UpdateItemExistingOnly(tbl, id, name) ==
    IF tbl[id] = NoItem THEN tbl
    ELSE [tbl EXCEPT ![id] = [tbl[id] EXCEPT !.Name = name]]

\* SET #NAME = :name; without a condition expression a missing key is created
UpdateItem(tbl, id, name) ==
    IF tbl[id] = NoItem
    THEN [tbl EXCEPT ![id] = [ID |-> id, Name |-> name]]
    ELSE [tbl EXCEPT ![id] = [tbl[id] EXCEPT !.Name = name]]

\* a delete that empties the table
DeleteItemAll(tbl, id) == [k \in DOMAIN tbl |-> NoItem]

DeleteItem(tbl, id) == [tbl EXCEPT ![id] = NoItem]

GetItem(tbl, id) == tbl[id]

ScanItems(tbl) == {tbl[k] : k \in {x \in DOMAIN tbl : tbl[x] # NoItem}}

RECURSIVE Perms(_)
Perms(S) ==
    IF S = {} THEN {<<>>}
    ELSE UNION {{<<x>> \o p : p \in Perms(S \ {x})} : x \in S}

\* *item["ID"].S and *item["Name"].S dereference without a nil check
HasAttrs(item) == "ID" \in DOMAIN item /\ "Name" \in DOMAIN item

ToMovie(item) == [ID |-> item.ID, Name |-> item.Name]

---------------------------------------------------------------------------
(* Responses                                                               *)

Panic == [panic |-> TRUE]

Response(status, json, body) ==
    [panic |-> FALSE, status |-> status, json |-> json, body |-> body]

jsonErrorResponse(errMessage) ==
    [type |-> "feedback", success |-> FALSE, message |-> errMessage]

jsonSuccessResponse(successMessage) ==
    [type |-> "feedback", success |-> TRUE, message |-> successMessage]

\* a body built by string concatenation, kept as its parts
Text(parts) == [type |-> "text", parts |-> parts]

MovieJSON(movie) == [type |-> "movie", id |-> movie.ID, name |-> movie.Name]

PageJSON(paged, pageNum, totalPages) ==
    [type |-> "page", data |-> paged, actual_page |-> pageNum,
     total_pages |-> totalPages]

Call(op, err) == [op |-> op, err |-> err]

\* what a handler leaves behind: the response, the table, the storage calls
Result(h, r, tbl, cs) == [handler |-> h, resp |-> r, table |-> tbl, calls |-> cs]

---------------------------------------------------------------------------
(* The router lambda                                                       *)

\* findAllMovies with the page parameter parsed before the scan
findAllMoviesParseFirst(r, tbl, env) ==
    LET page == IF r.page = <<>> THEN <<49>> ELSE r.page
        at   == Atoi(page)
    IN  IF at.err
        THEN Result("findAllMovies",
                 Response(500, TRUE,
                     jsonErrorResponse("Only numbers accepted in page query string")),
                 tbl, <<>>)
        ELSE IF env.err # NoErr
        THEN Result("findAllMovies",
                 Response(500, TRUE, jsonErrorResponse("Error while scanning DynamoDB")),
                 tbl, <<Call("Scan", env.err)>>)
        ELSE LET movies == SortMovies([i \in 1..Len(env.order) |-> ToMovie(env.order[i])])
                 pg     == paginateMovies(movies, at.val, PageSize)
             IN  IF pg.panic
                 THEN Result("findAllMovies", Panic, tbl, <<Call("Scan", NoErr)>>)
                 ELSE IF GreaterW(at.val, W(pg.totalPages))
                 THEN Result("findAllMovies",
                          Response(400, TRUE,
                              jsonErrorResponse("The requested page exceeds the total of pages")),
                          tbl, <<Call("Scan", NoErr)>>)
                 ELSE Result("findAllMovies",
                          Response(200, TRUE, PageJSON(pg.paged, at.val, pg.totalPages)),
                          tbl, <<Call("Scan", NoErr)>>)

\* json.Marshal of a PaginatedMovie or a Movie (strings and ints only) cannot
\* fail, so the "Error while decoding to string value" branches are dead.
findAllMovies(r, tbl, env) ==
    LET cs == <<Call("Scan", env.err)>>
    IN  IF env.err # NoErr
        THEN Result("findAllMovies",
                 Response(500, TRUE, jsonErrorResponse("Error while scanning DynamoDB")),
                 tbl, cs)
        ELSE IF \E i \in 1..Len(env.order) : ~HasAttrs(env.order[i])
        THEN Result("findAllMovies", Panic, tbl, cs)
        ELSE LET movies == SortMovies([i \in 1..Len(env.order) |-> ToMovie(env.order[i])])
                 page   == IF r.page = <<>> THEN <<49>> ELSE r.page
                 at     == Atoi(page)
             IN  IF at.err
                 THEN Result("findAllMovies",
                          Response(500, TRUE,
                              jsonErrorResponse("Only numbers accepted in page query string")),
                          tbl, cs)
                 ELSE LET pg == paginateMovies(movies, at.val, PageSize)
                      IN  IF pg.panic
                          THEN Result("findAllMovies", Panic, tbl, cs)
                          ELSE IF GreaterW(at.val, W(pg.totalPages))
                          THEN Result("findAllMovies",
                                   Response(400, TRUE,
                                       jsonErrorResponse("The requested page exceeds the total of pages")),
                                   tbl, cs)
                          ELSE Result("findAllMovies",
                                   Response(200, TRUE,
                                       PageJSON(pg.paged, at.val, pg.totalPages)),
                                   tbl, cs)

findOneMovie(r, tbl, env) ==
    LET err  == CallErr(r.id, env.err)
        cs   == <<Call("GetItem", err)>>
        item == GetItem(tbl, r.id)
    IN  IF err # NoErr
        THEN Result("findOneMovie",
                 Response(500, TRUE, jsonErrorResponse("Error while getting item DynamoDB")),
                 tbl, cs)
        ELSE IF item = NoItem
        THEN Result("findOneMovie",
                 Response(404, TRUE, jsonErrorResponse("Movie not found with the ID provided")),
                 tbl, cs)
        ELSE IF ~HasAttrs(item)
        THEN Result("findOneMovie", Panic, tbl, cs)
        ELSE Result("findOneMovie", Response(200, TRUE, MovieJSON(ToMovie(item))), tbl, cs)

\* insertMovie that tries the write once more after a failure
insertMovieRetry(r, tbl, env) ==
    LET movie == Unmarshal(r.body)
    IN  IF movie.err
        THEN Result("insertMovie", Response(400, TRUE, jsonErrorResponse("Invalid payload")),
                 tbl, <<>>)
        ELSE LET err == CallErr(movie.ID, env.err)
             IN  IF err # NoErr
                 THEN Result("insertMovie",
                          Response(500, TRUE,
                              jsonErrorResponse("Error inserting movie into DynamoDB")),
                          tbl, <<Call("PutItem", err), Call("PutItem", err)>>)
                 ELSE Result("insertMovie",
                          Response(200, TRUE, jsonSuccessResponse("Movie inserted successfully")),
                          PutItem(tbl, movie.ID, movie.Name), <<Call("PutItem", err)>>)

\* A storage call that fails leaves the table as it was: the collaborator
\* answers with a result or a failure, never both.
insertMovie(r, tbl, env) ==
    LET movie == Unmarshal(r.body)
    IN  IF movie.err
        THEN Result("insertMovie", Response(400, TRUE, jsonErrorResponse("Invalid payload")),
                 tbl, <<>>)
        ELSE LET err == CallErr(movie.ID, env.err)
                 cs  == <<Call("PutItem", err)>>
             IN  IF err # NoErr
                 THEN Result("insertMovie",
                          Response(500, TRUE,
                              jsonErrorResponse("Error inserting movie into DynamoDB")),
                          tbl, cs)
                 ELSE Result("insertMovie",
                          Response(200, TRUE, jsonSuccessResponse("Movie inserted successfully")),
                          PutItem(tbl, movie.ID, movie.Name), cs)

updateMovie(r, tbl, env) ==
    LET movie == Unmarshal(r.body)
    IN  IF movie.err
        THEN Result("updateMovie", Response(400, TRUE, jsonErrorResponse("Invalid payload")),
                 tbl, <<>>)
        ELSE LET err == CallErr(movie.ID, env.err)
                 cs  == <<Call("UpdateItem", err)>>
             IN  IF err # NoErr
                 THEN Result("updateMovie",
                          Response(500, TRUE,
                              jsonErrorResponse("Error updating movie from DynamoDB")),
                          tbl, cs)
                 ELSE Result("updateMovie",
                          Response(200, TRUE, jsonSuccessResponse("Movie updated successfully")),
                          UpdateItem(tbl, movie.ID, movie.Name), cs)

deleteMovie(r, tbl, env) ==
    LET movie == Unmarshal(r.body)
    IN  IF movie.err
        THEN Result("deleteMovie", Response(400, TRUE, jsonErrorResponse("Invalid payload")),
                 tbl, <<>>)
        ELSE LET err == CallErr(movie.ID, env.err)
                 cs  == <<Call("DeleteItem", err)>>
             IN  IF err # NoErr
                 THEN Result("deleteMovie",
                          Response(500, TRUE,
                              jsonErrorResponse("Error deleting movie into DynamoDB")),
                          tbl, cs)
                 ELSE Result("deleteMovie",
                          Response(200, TRUE, jsonSuccessResponse("Movie deleted successfully")),
                          DeleteItem(tbl, movie.ID), cs)

methodNotAllowed(tbl) ==
    Result("default",
        Response(405, TRUE, jsonErrorResponse("Unsupported HTTP method")), tbl, <<>>)

\* handleRequest that sends every GET to the list operation
handleRequestIgnoreId(r, tbl, env) ==
    CASE r.method = "GET"    -> findAllMovies(r, tbl, env)
      [] r.method = "POST"   -> insertMovie(r, tbl, env)
      [] r.method = "PUT"    -> updateMovie(r, tbl, env)
      [] r.method = "DELETE" -> deleteMovie(r, tbl, env)
      [] OTHER               -> methodNotAllowed(tbl)

\* req.PathParameters["id"] is "" for an absent key as for an empty value
handleRequest(r, tbl, env) ==
    CASE r.method = "GET"    -> IF r.id = <<>> THEN findAllMovies(r, tbl, env)
                                ELSE findOneMovie(r, tbl, env)
      [] r.method = "POST"   -> insertMovie(r, tbl, env)
      [] r.method = "PUT"    -> updateMovie(r, tbl, env)
      [] r.method = "DELETE" -> deleteMovie(r, tbl, env)
      [] OTHER               -> methodNotAllowed(tbl)

---------------------------------------------------------------------------
(* The single-purpose lambdas                                              *)

\* err.Error() of a json.Unmarshal failure
UnmarshalErrText == "invalid character"

insert(r, tbl, env) ==
    LET movie == Unmarshal(r.body)
    IN  IF movie.err
        THEN Result("insert",
                 Response(400, FALSE, Text(<<"Invalid payload: ", UnmarshalErrText>>)),
                 tbl, <<>>)
        ELSE LET err == CallErr(movie.ID, env.err)
                 cs  == <<Call("PutItem", err)>>
             IN  IF err # NoErr
                 THEN Result("insert",
                          Response(500, FALSE,
                              Text(<<"Error inserting movie into DynamoDB: ", err>>)),
                          tbl, cs)
                 ELSE Result("insert",
                          Response(200, TRUE, Text(<<"Movie inserted successfully">>)),
                          PutItem(tbl, movie.ID, movie.Name), cs)

update(r, tbl, env) ==
    LET movie == Unmarshal(r.body)
    IN  IF movie.err
        THEN Result("update",
                 Response(400, FALSE, Text(<<"Invalid payload: ", UnmarshalErrText>>)),
                 tbl, <<>>)
        ELSE LET err == CallErr(movie.ID, env.err)
                 cs  == <<Call("UpdateItem", err)>>
             IN  IF err # NoErr
                 THEN Result("update",
                          Response(500, FALSE,
                              Text(<<"Error updating movie from DynamoDB: ", err>>)),
                          tbl, cs)
                 ELSE Result("update",
                          Response(200, TRUE, Text(<<"Movie updated successfully">>)),
                          UpdateItem(tbl, movie.ID, movie.Name), cs)

delete(r, tbl, env) ==
    LET movie == Unmarshal(r.body)
    IN  IF movie.err
        THEN Result("delete",
                 Response(400, FALSE, Text(<<"Invalid payload: ", UnmarshalErrText>>)),
                 tbl, <<>>)
        ELSE LET err == CallErr(movie.ID, env.err)
                 cs  == <<Call("DeleteItem", err)>>
             IN  IF err # NoErr
                 THEN Result("delete",
                          Response(500, FALSE,
                              Text(<<"Error deleting movie into DynamoDB: ", err>>)),
                          tbl, cs)
                 ELSE Result("delete",
                          Response(200, TRUE, Text(<<"Movie deleted successfully">>)),
                          DeleteItem(tbl, movie.ID), cs)

\* no len(res.Item) == 0 check here: a missing item is dereferenced
findOne(r, tbl, env) ==
    LET err  == CallErr(r.id, env.err)
        cs   == <<Call("GetItem", err)>>
        item == GetItem(tbl, r.id)
    IN  IF err # NoErr
        THEN Result("findOne",
                 Response(500, FALSE, Text(<<"Error while getting item DynamoDB">>)),
                 tbl, cs)
        ELSE IF item = NoItem \/ ~HasAttrs(item)
        THEN Result("findOne", Panic, tbl, cs)
        ELSE Result("findOne", Response(200, TRUE, MovieJSON(ToMovie(item))), tbl, cs)

---------------------------------------------------------------------------
(* Requests and storage outcomes                                           *)

\* "m1", "m10", "m2", "M": Go orders them "M" < "m1" < "m10" < "m2"
IdM1  == <<109, 49>>
IdM10 == <<109, 49, 48>>
IdM2  == <<109, 50>>
IdM   == <<77>>
Keys  == {IdM1, IdM10, IdM2, IdM}

NameA == <<65>>
NameB == <<66>>

\* no name on record for a key: a sequence that is no string of bytes
NoName == <<-1>>

MaxPage == 3

Digits(ds) == [i \in 1..Len(ds) |-> 48 + ds[i]]

\* decimal page numbers at which (page-1)*3 or (page-1)*3+3 leaves the int range
BigPageStrings ==
    { Digits(<<3,0,7,4,4,5,7,3,4,5,6,1,8,2,5,8,6,0,3>>),   \* (2^63-2)/3 + 1
      Digits(<<4,6,1,1,6,8,6,0,1,8,4,2,7,3,8,7,9,0,5>>),   \* 2^62 + 1
      Digits(<<9,2,2,3,3,7,2,0,3,6,8,5,4,7,7,5,8,0,7>>),   \* 2^63 - 1
      Digits(<<9,2,2,3,3,7,2,0,3,6,8,5,4,7,7,5,8,0,8>>),   \* 2^63: out of range
      <<45>> \o Digits(<<9,2,2,3,3,7,2,0,3,6,8,5,4,7,7,5,8,0,8>>) }  \* -2^63

PageStrings ==
    { <<>>, <<120>>, <<49, 120>>, <<45>>, <<45, 49>>, <<43, 50>>, <<48, 50>> }
    \cup { <<48 + i>> : i \in 0..MaxPage }
    \cup BigPageStrings

TextBody        == [kind |-> "text"]
NullBody        == [kind |-> "null"]
ObjectBody(f)   == [kind |-> "object", fields |-> f]
EmptyObject     == ObjectBody(<<>>)
IdBody(k)       == ObjectBody([f \in {"id"} |-> JStr(k)])
NameBody(n)     == ObjectBody([f \in {"name"} |-> JStr(n)])
NumIdBody       == ObjectBody([f \in {"id"} |-> JNum])
MovieBody(k, n) == ObjectBody([f \in {"id", "name"} |-> IF f = "id" THEN JStr(k) ELSE JStr(n)])

Bodies ==
    { TextBody, NullBody, EmptyObject, NumIdBody, NameBody(NameA), IdBody(IdM1) }
    \cup { MovieBody(k, n) : k \in Keys, n \in {NameA, NameB} }

Request(m, id, page, body) == [method |-> m, id |-> id, page |-> page, body |-> body]

Requests ==
    { Request("GET", <<>>, p, TextBody) : p \in PageStrings }
    \cup { Request("GET", k, <<>>, TextBody) : k \in Keys }
    \cup { Request(m, <<>>, <<>>, b) : m \in {"POST", "PUT", "DELETE"}, b \in Bodies }
    \cup { Request(m, id, p, b) :
             m  \in {"GET", "POST", "PUT", "DELETE", "PATCH", "get"},
             id \in {<<>>, IdM1},
             p  \in {<<>>, <<50>>},
             b  \in {TextBody, MovieBody(IdM1, NameB)} }

\* the single-purpose lambdas read the body, or the id path parameter, only
BodyRequests == { Request("POST", <<>>, <<>>, b) : b \in Bodies }
IdRequests   == { Request("GET", id, <<>>, TextBody) : id \in Keys \cup {<<>>} }

ErrTexts == {"ProvisionedThroughputExceededException", "ResourceNotFoundException"}

\* what the backend does with a storage call: it fails with one of its
\* errors, or succeeds
CallEnvs == { [err |-> e, order |-> <<>>] : e \in ErrTexts \cup {NoErr} }

\* a scan that succeeds returns the items in an order of the backend's own
Envs(r, tbl) ==
    IF r.method = "GET" /\ r.id = <<>>
    THEN { [err |-> e, order |-> <<>>] : e \in ErrTexts }
         \cup { [err |-> NoErr, order |-> o] : o \in Perms(ScanItems(tbl)) }
    ELSE CallEnvs

\* history of the writes answered with 200
Written(lw, op, body, r) ==
    LET movie == Unmarshal(body)
    IN  IF r.panic \/ movie.err THEN lw
        ELSE IF r.status # 200 THEN lw
        ELSE IF op \in {"create", "update"} THEN [lw EXCEPT ![movie.ID] = movie.Name]
        ELSE IF op = "delete" THEN [lw EXCEPT ![movie.ID] = NoName]
        ELSE lw

OpOf(method) ==
    CASE method = "POST"   -> "create"
      [] method = "PUT"    -> "update"
      [] method = "DELETE" -> "delete"
      [] OTHER             -> "read"

---------------------------------------------------------------------------
(* The lambdas serving requests against the table, one invocation at a     *)
(* time: a request is handled to its response (or to a panic), the front   *)
(* door takes the response, and the next invocation starts.                *)

NoRequest  == [method |-> "none"]
NoResponse == [pending |-> TRUE]

Idle == req = NoRequest

Init ==
    /\ table     = [k \in Keys |-> NoItem]
    /\ before    = [k \in Keys |-> NoItem]
    /\ req       = NoRequest
    /\ resp      = NoResponse
    /\ calls     = <<>>
    /\ lambda    = "none"
    /\ handler   = "none"
    /\ lastWrite = [k \in Keys |-> NoName]

Invoke(fn, r, out, op) ==
    /\ lambda'    = fn
    /\ req'       = r
    /\ resp'      = out.resp
    /\ table'     = out.table
    /\ before'    = table
    /\ calls'     = out.calls
    /\ handler'   = out.handler
    /\ lastWrite' = Written(lastWrite, op, r.body, out.resp)

\* lambda.Start(handleRequest)
HandleRequest ==
    /\ Idle
    /\ \E r \in Requests :
         \E env \in Envs(r, table) :
           \E out \in {handleRequest(r, table, env)} :
             Invoke("router", r, out, OpOf(r.method))

\* lambda.Start(insert)
Insert ==
    /\ Idle
    /\ \E r \in BodyRequests :
         \E env \in CallEnvs :
           \E out \in {insert(r, table, env)} : Invoke("insert", r, out, "create")

\* lambda.Start(update)
Update ==
    /\ Idle
    /\ \E r \in BodyRequests :
         \E env \in CallEnvs :
           \E out \in {update(r, table, env)} : Invoke("update", r, out, "update")

\* lambda.Start(delete)
Delete ==
    /\ Idle
    /\ \E r \in BodyRequests :
         \E env \in CallEnvs :
           \E out \in {delete(r, table, env)} : Invoke("delete", r, out, "delete")

\* lambda.Start(findOne)
FindOne ==
    /\ Idle
    /\ \E r \in IdRequests :
         \E env \in CallEnvs :
           \E out \in {findOne(r, table, env)} : Invoke("findOne", r, out, "read")

\* the front door takes the response; the invocation is over
Deliver ==
    /\ ~Idle
    /\ req'     = NoRequest
    /\ resp'    = NoResponse
    /\ calls'   = <<>>
    /\ lambda'  = "none"
    /\ handler' = "none"
    /\ before'  = table
    /\ UNCHANGED <<table, lastWrite>>

Next == HandleRequest \/ Insert \/ Update \/ Delete \/ FindOne \/ Deliver

Spec == Init /\ [][Next]_vars

---------------------------------------------------------------------------
(* paginateMovies on its own: sorted collections and page numbers          *)

MaxItems   == 7
MaxPageNum == 5

\* an ID-sorted collection of n movies: "A", "B", ...
Collection(n) == [i \in 1..n |-> [ID |-> <<64 + i>>, Name |-> NameA]]

\* page numbers at which start or end leaves the int range
BigPageNums ==
    { MaxInt64, MinInt64, AddW(MinInt64, W(1)),
      Atoi(Digits(<<3,0,7,4,4,5,7,3,4,5,6,1,8,2,5,8,6,0,3>>)).val,
      Atoi(Digits(<<4,6,1,1,6,8,6,0,1,8,4,2,7,3,8,7,9,0,5>>)).val,
      Atoi(Digits(<<6,1,4,8,9,1,4,6,9,1,2,3,6,5,1,7,2,0,6>>)).val,
      Atoi(Digits(<<4,2,9,4,9,6,7,2,9,7>>)).val }

PageNums == { FromInt(i) : i \in -2..MaxPageNum } \cup BigPageNums

InitPaginate ==
    /\ table     = [k \in Keys |-> NoItem]
    /\ before    = [k \in Keys |-> NoItem]
    /\ req \in { [method |-> "paginateMovies", movies |-> Collection(n), pageNum |-> p] :
                   n \in 0..MaxItems, p \in PageNums }
    /\ resp      = NoResponse
    /\ calls     = <<>>
    /\ lambda    = "none"
    /\ handler   = "none"
    /\ lastWrite = [k \in Keys |-> NoName]

Paginate ==
    /\ resp = NoResponse
    /\ resp' = paginateMovies(req.movies, req.pageNum, PageSize)
    /\ handler' = "paginateMovies"
    /\ UNCHANGED <<table, before, req, calls, lambda, lastWrite>>

NextPaginate == Paginate

SpecPaginate == InitPaginate /\ [][NextPaginate]_vars

---------------------------------------------------------------------------
(* Properties                                                              *)

Router == lambda = "router"

IsJSON(body) == body.type \in {"feedback", "movie", "page"}

Feedback(status, ok, message) ==
    Response(status, TRUE, [type |-> "feedback", success |-> ok, message |-> message])

\* the sub-sequence of s at positions from+1 .. to
Slice(s, from, to) == [i \in 1..(to - from) |-> s[from + i]]

Min(a, b) == IF a < b THEN a ELSE b

\* t = ceil(n / PageSize): the one t with PageSize*(t-1) < n <= PageSize*t
IsCeil(t, n) == PageSize * (t - 1) < n /\ n <= PageSize * t

\* the present movies in ascending ID order, by their ranks
Present(tbl) == {k \in DOMAIN tbl : tbl[k] # NoItem}
Rank(tbl, k) == Cardinality({j \in Present(tbl) : StrLess(j, k)}) + 1
Ascending(tbl) ==
    [i \in 1..Cardinality(Present(tbl)) |->
        LET k == CHOOSE x \in Present(tbl) : Rank(tbl, x) = i
        IN  [ID |-> k, Name |-> tbl[k].Name]]

\* a page parameter that is not a decimal number, signed or not
NonNumeric(s) ==
    /\ s # <<>>
    /\ \/ \E i \in 1..Len(s) : ~IsDigit(s[i]) /\ ~(i = 1 /\ s[i] \in {43, 45})
       \/ Len(s) = 1 /\ ~IsDigit(s[1])

ListRequest == Router /\ req.method = "GET" /\ req.id = <<>>

ScanOk == calls = <<Call("Scan", NoErr)>>

\* C1: every request to the router ends in a response with a status code
\* and a JSON body, never in a panic.
C1_AlwaysWellFormed ==
    Router => /\ ~resp.panic
              /\ resp.status \in {200, 400, 404, 405, 500}
              /\ IsJSON(resp.body)

\* the pages p .. last of a collection, one after the other
RECURSIVE ConcatPages(_, _, _)
ConcatPages(movies, p, last) ==
    IF p > last THEN <<>>
    ELSE paginateMovies(movies, W(p), PageSize).paged \o ConcatPages(movies, p + 1, last)

\* C2: for a sorted collection of N movies paginateMovies reports
\* total_pages = ceil(N/3); for each page p in 1..total_pages it returns the
\* elements at positions (p-1)*3 up to min(p*3, N); the pages 1..total_pages
\* concatenated are the collection.
C2_Pagination ==
    handler = "paginateMovies" =>
        LET movies == req.movies
            N      == Len(movies)
        IN  /\ ~resp.panic => IsCeil(resp.totalPages, N)
            /\ \A q \in 1..N :
                 (req.pageNum = W(q) /\ PageSize * (q - 1) < N) =>
                    /\ ~resp.panic
                    /\ resp.paged = Slice(movies, PageSize * (q - 1), Min(PageSize * q, N))
            /\ \A t \in 0..N :
                 IsCeil(t, N) => ConcatPages(movies, 1, t) = movies

C2_Witness ==
    /\ handler = "paginateMovies"
    /\ Len(req.movies) = 7
    /\ req.pageNum = W(3)
    /\ ~resp.panic
    /\ resp.totalPages = 3
    /\ resp.paged = <<req.movies[7]>>

\* C3: for every page number greater than total_pages, however large,
\* paginateMovies returns an empty slice and does not panic.
C3_BeyondLastPageIsEmpty ==
    (/\ handler = "paginateMovies"
     /\ GreaterW(req.pageNum, W(CeilDiv(Len(req.movies), PageSize))))
    => (~resp.panic /\ resp.paged = <<>>)

Dispatched ==
    CASE req.method = "GET" /\ req.id = <<>> -> "findAllMovies"
      [] req.method = "GET" /\ req.id # <<>> -> "findOneMovie"
      [] req.method = "POST"                 -> "insertMovie"
      [] req.method = "PUT"                  -> "updateMovie"
      [] req.method = "DELETE"               -> "deleteMovie"
      [] OTHER                               -> "default"

\* C4: the router dispatches on the method and on the presence of the id
\* path parameter only; any other method is answered 405 with an error
\* envelope.
C4_Dispatch ==
    Router =>
        /\ handler = Dispatched
        /\ handler = "default" =>
             (resp = Feedback(405, FALSE, "Unsupported HTTP method") /\ table = before)

C4_Witness ==
    /\ Router
    /\ req.method = "GET" /\ req.id = IdM1 /\ req.page = <<50>>
    /\ handler = "findOneMovie"

Mutation == req.method \in {"POST", "PUT", "DELETE"}
Supported == req.method \in {"GET", "POST", "PUT", "DELETE"}

\* C5 as stated: a create, update or delete whose body is not parseable JSON
\* is answered 400 after no storage call, the store unchanged; an unsupported
\* method 405 after no storage call; every other request makes exactly one
\* storage call.
C5_OneCallUnlessNotJSON ==
    Router =>
        IF Mutation /\ req.body.kind = "text"
        THEN calls = <<>> /\ ~resp.panic /\ resp.status = 400 /\ table = before
        ELSE IF ~Supported
        THEN calls = <<>> /\ ~resp.panic /\ resp.status = 405
        ELSE Len(calls) = 1

\* a body json.Unmarshal cannot decode into a Movie
Undecodable(body) ==
    \/ body.kind = "text"
    \/ body.kind = "object" /\ \E f \in DOMAIN body.fields : body.fields[f].t # "string"

\* C5 amended: the requests answered 400 after no storage call are the
\* creates, updates and deletes whose body does not decode into a movie:
\* text that is not JSON, or JSON with a member of the wrong type.
C5_OneCallUnlessUndecodable ==
    Router =>
        IF Mutation /\ Undecodable(req.body)
        THEN calls = <<>> /\ resp = Feedback(400, FALSE, "Invalid payload") /\ table = before
        ELSE IF ~Supported
        THEN calls = <<>> /\ ~resp.panic /\ resp.status = 405 /\ table = before
        ELSE Len(calls) = 1

C5_Witness ==
    /\ Router
    /\ req.method = "POST" /\ req.body = NumIdBody
    /\ calls = <<>>
    /\ resp.status = 400

\* C6 as stated: a list request with a non-numeric page parameter is
\* answered "only numbers accepted" (500) without the scan being issued.
C6_PageCheckedBeforeScan ==
    (ListRequest /\ NonNumeric(req.page)) =>
        /\ calls = <<>>
        /\ resp = Feedback(500, FALSE, "Only numbers accepted in page query string")

\* C6 amended: a list request with a non-numeric page parameter issues the
\* scan first; it is answered "only numbers accepted" (500) when the scan
\* succeeded and with the scan error (500) when the scan failed.
C6_PageCheckedAfterScan ==
    (ListRequest /\ NonNumeric(req.page)) =>
        /\ Len(calls) = 1 /\ calls[1].op = "Scan"
        /\ calls[1].err = NoErr =>
             resp = Feedback(500, FALSE, "Only numbers accepted in page query string")
        /\ calls[1].err # NoErr =>
             resp = Feedback(500, FALSE, "Error while scanning DynamoDB")

C6_Witness ==
    /\ ListRequest
    /\ req.page = <<120>>
    /\ calls # <<>> /\ calls[1].err # NoErr
    /\ resp = Feedback(500, FALSE, "Error while scanning DynamoDB")

\* C7: a list request whose scan succeeds and whose page parameter parses to
\* p (1 when absent) is answered 400 if p > total_pages, and otherwise 200
\* with actual_page = p, total_pages = ceil(N/3) and the p-th slice of the
\* ID-ascending collection.
C7_ListResponse ==
    (ListRequest /\ ScanOk) =>
        LET at  == Atoi(IF req.page = <<>> THEN <<49>> ELSE req.page)
            all == Ascending(table)
            N   == Len(all)
            tp  == CeilDiv(N, PageSize)
        IN  ~at.err =>
              IF GreaterW(at.val, W(tp))
              THEN resp = Feedback(400, FALSE, "The requested page exceeds the total of pages")
              ELSE /\ ~resp.panic
                   /\ resp.status = 200
                   /\ resp.body.type = "page"
                   /\ resp.body.actual_page = at.val
                   /\ resp.body.total_pages = tp
                   /\ IsCeil(tp, N)
                   /\ \A q \in 1..tp :
                        at.val = W(q) =>
                          resp.body.data =
                            Slice(all, PageSize * (q - 1), Min(PageSize * q, N))

GetOneOk == Router /\ handler = "findOneMovie" /\ calls = <<Call("GetItem", NoErr)>>

\* C8: after writes answered 200, get-one(id) returns 200 with the id and
\* the name of the latest create or update of that id, unless a delete came
\* after it; an update of an id that did not exist counts like a create.
C8_ReadYourWrites ==
    (GetOneOk /\ lastWrite[req.id] # NoName) =>
        resp = Response(200, TRUE,
                   [type |-> "movie", id |-> req.id, name |-> lastWrite[req.id]])

C8_Witness ==
    /\ GetOneOk
    /\ req.id = IdM1
    /\ lastWrite[IdM1] = NameB
    /\ resp.status = 200
    /\ resp.body.name = NameB

DeleteOk == Router /\ handler = "deleteMovie" /\ calls = <<Call("DeleteItem", NoErr)>>

\* C9: a DELETE whose storage call succeeds is answered 200 whether or not
\* the id was present, leaves the id absent and the other records as they
\* were; a get-one of an id not written since is answered 404.
C9_DeleteIdempotent ==
    /\ DeleteOk =>
         LET id == Field(req.body, "id")
         IN  /\ resp = Feedback(200, TRUE, "Movie deleted successfully")
             /\ table[id] = NoItem
             /\ \A k \in Keys \ {id} : table[k] = before[k]
    /\ (GetOneOk /\ lastWrite[req.id] = NoName) =>
         resp = Feedback(404, FALSE, "Movie not found with the ID provided")

C9_Witness ==
    /\ DeleteOk
    /\ Field(req.body, "id") = IdM1
    /\ before[IdM1] = NoItem
    /\ before[IdM2] # NoItem
    /\ resp.status = 200

BackendTexts == ErrTexts \cup {"ValidationException"}

LeaksErrorText(body) ==
    body.type = "text" /\ \E i \in 1..Len(body.parts) : body.parts[i] \in BackendTexts

\* C10: in every handler of the repository a storage failure is answered
\* 500 with a fixed message that does not contain the backend's error text.
C10_NoBackendTextInResponse ==
    (~Idle /\ calls # <<>> /\ calls[1].err # NoErr) =>
        /\ ~resp.panic
        /\ resp.status = 500
        /\ ~LeaksErrorText(resp.body)

=============================================================================
